---- MODULE Spec2Model ----
(***************************************************************************)
(* Model of the zplsc echogram metadata uploader                           *)
(* (mi/dataset/driver/zplsc_c/zplsc_echogram_uploader.py).                 *)
(*                                                                         *)
(* A Python string is a sequence of one-character strings, so that the     *)
(* regular expressions, strptime, os.path and the slicing of the source   *)
(* are computed on the characters as the code computes them.  A datetime   *)
(* is the pair <<date.toordinal(), seconds of the day>>, compared in that  *)
(* order.                                                                  *)
(***************************************************************************)
EXTENDS Integers, Sequences, FiniteSets, TLC

\* ------------------------------------------------------------------------
\* Characters and strings

\* The characters that occur, in increasing ASCII order (str comparison).
AsciiTable == <<" ","(",")","*","-",".","/","0","1","2","3","4","5","6","7","8","9","<",">","?","A","B","C","D","E","F","G","H","I","J","K","L","M","N","O","P","Q","R","S","T","U","V","W","X","Y","Z","[","\\","]","_","a","b","c","d","e","f","g","h","i","j","k","l","m","n","o","p","q","r","s","t","u","v","w","x","y","z","{","|","}">>

Ord(c) == CHOOSE i \in 1..Len(AsciiTable) : AsciiTable[i] = c

Digits == {"0","1","2","3","4","5","6","7","8","9"}

DigitVal(c) == Ord(c) - Ord("0")

DigitChar(n) == AsciiTable[Ord("0") + n]

\* int(s) for a string of decimal digits
RECURSIVE ToInt(_)
ToInt(s) == IF s = <<>> THEN 0 ELSE 10 * ToInt(SubSeq(s, 1, Len(s) - 1)) + DigitVal(s[Len(s)])

\* Python's None, for an optional regex group that did not take part in the match
None == <<"None">>

\* a < b for two str values (lexicographic on the character codes)
StrLess(a, b) ==
    LET n == IF Len(a) < Len(b) THEN Len(a) ELSE Len(b)
        diff == {k \in 1..n : a[k] # b[k]}
    IN  IF diff = {} THEN Len(a) < Len(b)
        ELSE LET k == CHOOSE k \in diff : \A j \in diff : k <= j
             IN  Ord(a[k]) < Ord(b[k])

\* s.startswith(lit, i - 1), positions counted from 1
StartsWithAt(s, i, lit) ==
    /\ i + Len(lit) - 1 <= Len(s)
    /\ SubSeq(s, i, i + Len(lit) - 1) = lit

\* s[i-1 : i-1+n] is n decimal digits
DigitsAt(s, i, n) ==
    /\ i + n - 1 <= Len(s)
    /\ \A k \in i..(i + n - 1) : s[k] \in Digits

\* s.rfind(c): 0-based index of the last c, -1 when there is none
rfind(s, c) ==
    LET at == {k \in 1..Len(s) : s[k] = c}
    IN  IF at = {} THEN -1 ELSE (CHOOSE k \in at : \A j \in at : j <= k) - 1

\* s[:k], k may be negative as in Python
SliceTo(s, k) ==
    IF k >= 0 THEN SubSeq(s, 1, IF k < Len(s) THEN k ELSE Len(s))
    ELSE SubSeq(s, 1, IF Len(s) + k > 0 THEN Len(s) + k ELSE 0)

\* s[k:], k >= 0
SliceFrom(s, k) == SubSeq(s, k + 1, Len(s))

\* s.rstrip('/')
RECURSIVE rstrip_sep(_)
rstrip_sep(s) ==
    IF s # <<>> /\ s[Len(s)] = "/" THEN rstrip_sep(SubSeq(s, 1, Len(s) - 1)) ELSE s

\* posixpath.split(p): <<head, tail>>
path_split(p) ==
    LET i == rfind(p, "/") + 1
        head == SliceTo(p, i)
        tail == SliceFrom(p, i)
    IN  IF head # <<>> /\ (\E k \in 1..Len(head) : head[k] # "/")
        THEN <<rstrip_sep(head), tail>>
        ELSE <<head, tail>>

\* posixpath.splitext(p): <<root, ext>>
path_splitext(p) ==
    LET sepIndex == rfind(p, "/")
        dotIndex == rfind(p, ".")
    IN  IF dotIndex > sepIndex
           /\ \E k \in (sepIndex + 1)..(dotIndex - 1) : p[k + 1] # "."
        THEN <<SliceTo(p, dotIndex), SliceFrom(p, dotIndex)>>
        ELSE <<p, <<>>>>

\* posixpath.join(a, b)
path_join2(a, b) ==
    IF b # <<>> /\ b[1] = "/" THEN b
    ELSE IF a = <<>> \/ a[Len(a)] = "/" THEN a \o b
    ELSE a \o <<"/">> \o b

\* posixpath.join(a, b, c, d)
path_join(a, b, c, d) == path_join2(path_join2(path_join2(a, b), c), d)

\* ------------------------------------------------------------------------
\* Regular expressions

\* lines 188-190: the two filename grammars (their text goes in the error message)
averaged_or_full_filename_regex_str ==
    <<"B","i","o","a","c","o","u","s","t","i","c","_","E","c","h","o","g","r","a","m","_","(","?","P","<","s","t","a","r","t","_","d","a","t","e",">","[","0","-","9","]","{","8","}",")","-","(","?","P","<","s","t","o","p","_","d","a","t","e",">","[","0","-","9","]","{","8","}",")","_","C","a","l","i","b","r","a","t","e","d","_","S","v","_","(","?","P","<","t","y","p","e",">","A","v","e","r","a","g","e","d","|","F","u","l","l",")","_","?","(","?","P","<","d","a","t","e",">","[","0","-","9","]","{","8","}",")","?","\\",".","n","c">>

hourly_filename_regex_str == <<"O","O","I","-","D","[","0","-","9","]","{","8","}","-","T","[","0","-","9","]","{","6","}","\\",".","n","c">>

\* the values of ZplscEchogramType
AVERAGED == <<"A","v","e","r","a","g","e","d">>
FULL == <<"F","u","l","l">>
HOURLY == <<"H","o","u","r","l","y">>

\* The atoms of a pattern written with literals, \x escapes, "." and [0-9]{n}:
\* every pattern the code hands to re.match is of this shape.
RECURSIVE re_atoms(_, _)
re_atoms(r, i) ==
    IF i > Len(r) THEN <<>>
    ELSE IF r[i] = "\\"
         THEN <<[k |-> "lit", c |-> r[i + 1]]>> \o re_atoms(r, i + 2)
    ELSE IF r[i] = "."
         THEN <<[k |-> "any", c |-> "."]>> \o re_atoms(r, i + 1)
    ELSE IF r[i] = "["
         THEN [j \in 1..DigitVal(r[i + 6]) |-> [k |-> "digit", c |-> "0"]]
              \o re_atoms(r, i + 8)
    ELSE <<[k |-> "lit", c |-> r[i]]>> \o re_atoms(r, i + 1)

atom_matches(a, ch) ==
    CASE a.k = "lit" -> ch = a.c
      [] a.k = "digit" -> ch \in Digits
      [] OTHER -> TRUE

re_match_prefix(regex, f) ==
    LET a == re_atoms(regex, 1)
    IN  /\ Len(f) >= Len(a)
        /\ \A k \in 1..Len(a) : atom_matches(a[k], f[k])

\* re.match(regex, f) is not None: the pattern matches at the start of f;
\* what follows the match in f is not looked at.
re_match(regex, f) == re_match_prefix(regex, f)

\* The range grammar tried at position i of s.  After the type, "_?" and the
\* optional date are greedy; the next character ("_", a digit or ".") decides.
range_match_at(s, i) ==
    LET l1 == <<"B","i","o","a","c","o","u","s","t","i","c","_","E","c","h","o","g","r","a","m","_">>
        l2 == <<"_","C","a","l","i","b","r","a","t","e","d","_","S","v","_">>
        p1 == i + Len(l1)
        p2 == p1 + 9
        p3 == p2 + 8
        p4 == p3 + Len(l2)
        ty == IF StartsWithAt(s, p4, AVERAGED) THEN AVERAGED
              ELSE IF StartsWithAt(s, p4, FULL) THEN FULL ELSE None
        p5 == p4 + Len(ty)
        p6 == IF StartsWithAt(s, p5, <<"_">>) THEN p5 + 1 ELSE p5
        tail(p) == IF DigitsAt(s, p, 8) /\ StartsWithAt(s, p + 8, <<".","n","c">>)
                   THEN [ok |-> TRUE, date |-> SubSeq(s, p, p + 7)]
                   ELSE IF StartsWithAt(s, p, <<".","n","c">>)
                   THEN [ok |-> TRUE, date |-> None]
                   ELSE [ok |-> FALSE, date |-> None]
        t == IF tail(p6).ok THEN tail(p6) ELSE tail(p5)
    IN  IF /\ StartsWithAt(s, i, l1)
           /\ DigitsAt(s, p1, 8)
           /\ StartsWithAt(s, p1 + 8, <<"-">>)
           /\ DigitsAt(s, p2, 8)
           /\ StartsWithAt(s, p3, l2)
           /\ ty # None
           /\ t.ok
        THEN [ok |-> TRUE,
              start_date |-> SubSeq(s, p1, p1 + 7),
              stop_date |-> SubSeq(s, p2, p2 + 7),
              type |-> ty,
              date |-> t.date]
        ELSE [ok |-> FALSE, start_date |-> None, stop_date |-> None,
              type |-> None, date |-> None]

NoMatch == [ok |-> FALSE, start_date |-> None, stop_date |-> None,
            type |-> None, date |-> None]

\* line 192: re.compile(averaged_or_full_filename_regex_str).search(s), the
\* leftmost match; its named groups
averaged_or_full_search(s) ==
    LET at == {i \in 1..Len(s) : range_match_at(s, i).ok}
    IN  IF at = {} THEN NoMatch
        ELSE range_match_at(s, CHOOSE i \in at : \A j \in at : i <= j)

\* hourly_match with the time field two digits short
hourly_match_short_time(s) == re_match(<<"O","O","I","-","D","[","0","-","9","]","{","8","}","-","T","[","0","-","9","]","{","4","}","\\",".","n","c">>, s)

\* line 196: re.compile(hourly_filename_regex_str).match(s) is not None
hourly_match(s) == re_match(hourly_filename_regex_str, s)

\* ------------------------------------------------------------------------
\* datetime

MINYEAR == 1
MAXYEAR == 9999

IsLeap(y) == (y % 4 = 0) /\ ((y % 100 # 0) \/ (y % 400 = 0))

DaysInMonth(y, m) ==
    IF m = 2 THEN (IF IsLeap(y) THEN 29 ELSE 28)
    ELSE IF m \in {4, 6, 9, 11} THEN 30 ELSE 31

\* date(y, m, d).toordinal()
ToOrdinal(y, m, d) ==
    LET y1 == IF m <= 2 THEN y - 1 ELSE y
        era == y1 \div 400
        yoe == y1 % 400
        mp == IF m > 2 THEN m - 3 ELSE m + 9
        doy == (153 * mp + 2) \div 5 + d - 1
        doe == yoe * 365 + yoe \div 4 - yoe \div 100 + doy
    IN  era * 146097 + doe - 305

\* date.fromordinal(n) as <<year, month, day>>
FromOrdinal(n) ==
    LET z == n + 305
        era == z \div 146097
        doe == z % 146097
        yoe == (doe - doe \div 1460 + doe \div 36524 - doe \div 146096) \div 365
        doy == doe - (365 * yoe + yoe \div 4 - yoe \div 100)
        mp == (5 * doy + 2) \div 153
        d == doy - (153 * mp + 2) \div 5 + 1
        m == IF mp < 10 THEN mp + 3 ELSE mp - 9
        y == yoe + era * 400 + (IF m <= 2 THEN 1 ELSE 0)
    IN  <<y, m, d>>

MaxOrdinal == ToOrdinal(MAXYEAR, 12, 31)

\* the dt field of a failed parse; never read
NoDatetime == <<0, 0>>

\* a < b and a <= b for two datetimes
dt_less(a, b) == a[1] < b[1] \/ (a[1] = b[1] /\ a[2] < b[2])
dt_leq(a, b) == a = b \/ dt_less(a, b)

\* datetime(y, mo, d, h, mi, s): [ok, dt], ok = FALSE for the ValueError
make_datetime(y, mo, d, h, mi, s) ==
    IF /\ y >= MINYEAR /\ y <= MAXYEAR
       /\ mo >= 1 /\ mo <= 12
       /\ d >= 1 /\ d <= DaysInMonth(y, mo)
       /\ h <= 23 /\ mi <= 59 /\ s <= 59
    THEN [ok |-> TRUE, dt |-> <<ToOrdinal(y, mo, d), h * 3600 + mi * 60 + s>>]
    ELSE [ok |-> FALSE, dt |-> NoDatetime]

\* datetime.strptime(s, "%Y%m%d") for s of 8 digits (the regex groups): %Y takes
\* four digits and %m, %d two each, or the parse raises ValueError.
strptime_date(s) ==
    make_datetime(ToInt(SubSeq(s, 1, 4)), ToInt(SubSeq(s, 5, 6)), ToInt(SubSeq(s, 7, 8)), 0, 0, 0)

\* datetime.strptime(s, HOURLY_FILENAME_DATE_FORMAT) for s that starts with
\* OOI-D<8 digits>-T<6 digits>.nc, which the regex applied before each call
\* (lines 196, 225) guarantees: anything after ".nc" is "unconverted data" and
\* raises ValueError, as does a field out of range.
strptime_hourly(s) ==
    IF Len(s) # 24 THEN [ok |-> FALSE, dt |-> NoDatetime]
    ELSE make_datetime(ToInt(SubSeq(s, 6, 9)), ToInt(SubSeq(s, 10, 11)), ToInt(SubSeq(s, 12, 13)),
                       ToInt(SubSeq(s, 16, 17)), ToInt(SubSeq(s, 18, 19)), ToInt(SubSeq(s, 20, 21)))

\* dt + timedelta(days=n): [ok, dt], ok = FALSE for the OverflowError
add_days(dt, n) ==
    LET day == dt[1] + n
    IN  IF day >= 1 /\ day <= MaxOrdinal
        THEN [ok |-> TRUE, dt |-> <<day, dt[2]>>] ELSE [ok |-> FALSE, dt |-> NoDatetime]

TwoDigits(n) == <<DigitChar(n \div 10), DigitChar(n % 10)>>

\* dt.strftime('%m') and dt.strftime('%d')
strftime_m(dt) == TwoDigits(FromOrdinal(dt[1])[2])
strftime_d(dt) == TwoDigits(FromOrdinal(dt[1])[3])

\* ------------------------------------------------------------------------
\* Bounds and inputs

\* at most this many entries in the echogram's directory
MaxEntries == 2
\* the first ping time of an echogram is one of MaxPingTime + 1 values
MaxPingTime == 1

\* paths handed to parse() (line 39); the names follow the examples of lines 185-187
EchogramPaths == {
    <<"/","e","/","O","O","I","-","D","2","0","1","9","1","0","2","0","-","T","0","1","3","8","3","5",".","n","c">>,
    <<"/","e","/","O","O","I","-","D","2","0","1","9","1","0","2","0","-","T","0","1","3","8","3","5",".","n","c",".","b","a","k">>,
    <<"/","e","/","O","O","I","-","D","2","0","1","9","1","3","2","0","-","T","0","1","3","8","3","5",".","n","c">>,
    <<"/","e","/","O","O","I","-","D","2","0","1","9","1","0","2","0","-","T","0","1","3","8",".","n","c">>,
    <<"/","e","/","C","E","_","B","i","o","a","c","o","u","s","t","i","c","_","E","c","h","o","g","r","a","m","_","2","0","1","9","1","0","2","0","-","2","0","1","9","1","0","2","7","_","C","a","l","i","b","r","a","t","e","d","_","S","v","_","F","u","l","l","_","2","0","1","9","1","0","2","0",".","n","c">>,
    <<"/","e","/","C","E","_","B","i","o","a","c","o","u","s","t","i","c","_","E","c","h","o","g","r","a","m","_","2","0","1","9","1","0","2","0","-","2","0","1","9","1","0","2","7","_","C","a","l","i","b","r","a","t","e","d","_","S","v","_","F","u","l","l",".","n","c">>,
    <<"/","e","/","C","E","_","B","i","o","a","c","o","u","s","t","i","c","_","E","c","h","o","g","r","a","m","_","2","0","1","9","1","0","2","0","-","2","0","1","9","1","0","2","7","_","C","a","l","i","b","r","a","t","e","d","_","S","v","_","F","u","l","l","_","9","9","9","9","1","2","3","1",".","n","c">>,
    <<"/","e","/","C","E","_","B","i","o","a","c","o","u","s","t","i","c","_","E","c","h","o","g","r","a","m","_","2","0","1","9","1","0","2","0","-","2","0","1","9","1","0","2","2","_","C","a","l","i","b","r","a","t","e","d","_","S","v","_","A","v","e","r","a","g","e","d",".","n","c">>,
    <<"/","e","/","C","E","_","B","i","o","a","c","o","u","s","t","i","c","_","E","c","h","o","g","r","a","m","_","2","0","1","9","1","0","2","0","-","2","0","1","9","1","0","2","1","_","C","a","l","i","b","r","a","t","e","d","_","S","v","_","A","v","e","r","a","g","e","d",".","n","c">>,
    <<"/","e","/","C","E","_","B","i","o","a","c","o","u","s","t","i","c","_","E","c","h","o","g","r","a","m","_","2","0","1","9","1","2","3","1","-","2","0","2","0","0","1","0","2","_","C","a","l","i","b","r","a","t","e","d","_","S","v","_","A","v","e","r","a","g","e","d",".","n","c">>,
    <<"/","e","/","C","E","_","B","i","o","a","c","o","u","s","t","i","c","_","E","c","h","o","g","r","a","m","_","2","0","1","9","1","0","2","2","-","2","0","1","9","1","0","2","0","_","C","a","l","i","b","r","a","t","e","d","_","S","v","_","A","v","e","r","a","g","e","d",".","n","c">>,
    <<"/","e","/","C","E","_","B","i","o","a","c","o","u","s","t","i","c","_","E","c","h","o","g","r","a","m","_","2","0","1","9","1","0","2","0","-","2","0","1","9","1","0","2","7","_","C","a","l","i","b","r","a","t","e","d","_","S","v","_","H","o","u","r","l","y",".","n","c">>,
    <<"/","e","/","r","a","n","d","o","m","_","f","i","l","e",".","n","c">> }

\* names os.listdir may return for the echogram's directory (line 224)
DirEntries == {
    <<"O","O","I","-","D","2","0","1","9","1","0","1","9","-","T","2","3","5","9","5","9",".","n","c">>,
    <<"O","O","I","-","D","2","0","1","9","1","0","2","0","-","T","0","0","0","0","0","0",".","n","c">>,
    <<"O","O","I","-","D","2","0","1","9","1","0","2","0","-","T","0","1","3","8","3","5",".","n","c">>,
    <<"O","O","I","-","D","2","0","1","9","1","0","2","1","-","T","1","2","0","0","0","0",".","n","c">>,
    <<"O","O","I","-","D","2","0","1","9","1","0","2","2","-","T","0","0","0","0","0","0",".","n","c">>,
    <<"O","O","I","-","D","2","0","1","9","1","2","3","1","-","T","2","3","0","0","0","0",".","n","c">>,
    <<"O","O","I","-","D","2","0","2","0","0","1","0","1","-","T","0","0","3","0","0","0",".","n","c">>,
    <<"O","O","I","-","D","2","0","1","9","1","0","2","0","-","T","0","1","3","8","3","5","-","n","c">>,
    <<"O","O","I","-","D","2","0","1","9","1","0","2","0","-","T","0","1","3","8","3","5",".","n","c",".","b","a","k">>,
    <<"O","O","I","-","D","2","0","1","9","1","0","2","0","-","T","9","9","9","9","9","9",".","n","c">>,
    <<"C","E","_","B","i","o","a","c","o","u","s","t","i","c","_","E","c","h","o","g","r","a","m","_","2","0","1","9","1","0","2","0","-","2","0","1","9","1","0","2","7","_","C","a","l","i","b","r","a","t","e","d","_","S","v","_","F","u","l","l","_","2","0","1","9","1","0","2","0",".","n","c">>,
    <<"n","o","t","e","s",".","t","x","t">> }

Listings == {S \in SUBSET DirEntries : Cardinality(S) <= MaxEntries}

\* the keys of ZplscProvenanceKey, in the order lines 270-273 set them
ProvenanceKeys == <<"data_file_name", "conversion_software_name",
                    "conversion_software_version", "conversion_time">>

\* The raw data file an hourly file was converted from, as the converter
\* records it in Provenance.src_filenames (the example of line 284):
\* <root>/<year>/<month>/<day>/<stem>.raw
RawPathOf(f) ==
    <<"/","d","a","t","a","/","z","p","l","s","c","/">> \o SubSeq(f, 6, 9) \o <<"/">> \o SubSeq(f, 10, 11) \o <<"/">>
        \o SubSeq(f, 12, 13) \o <<"/">> \o SubSeq(f, 1, 21) \o <<".","r","a","w">>

\* The same raw data file kept under an upper-case extension, .DAT
DatPathOf(f) == SubSeq(RawPathOf(f), 1, Len(RawPathOf(f)) - 4) \o <<".","D","A","T">>

\* What netCDF4.Dataset(hourly_file) can find (lines 269-273): the open may
\* fail; the Provenance group may be missing; of its attributes the first
\* `attrs` of ProvenanceKeys are present; src_filenames may be empty.
HourlyFileContents(f) ==
    { [opens |-> FALSE, group |-> FALSE, attrs |-> 0, src_filenames |-> <<>>, conversion_time |-> "valid"],
      [opens |-> TRUE, group |-> FALSE, attrs |-> 0, src_filenames |-> <<>>, conversion_time |-> "valid"],
      [opens |-> TRUE, group |-> TRUE, attrs |-> 3, src_filenames |-> RawPathOf(f), conversion_time |-> "valid"],
      [opens |-> TRUE, group |-> TRUE, attrs |-> 4, src_filenames |-> <<>>, conversion_time |-> "valid"],
      [opens |-> TRUE, group |-> TRUE, attrs |-> 4, src_filenames |-> RawPathOf(f), conversion_time |-> "invalid"],
      [opens |-> TRUE, group |-> TRUE, attrs |-> 4, src_filenames |-> RawPathOf(f), conversion_time |-> "valid"],
      [opens |-> TRUE, group |-> TRUE, attrs |-> 4, src_filenames |-> DatPathOf(f), conversion_time |-> "valid"] }

\* What netCDF4.Dataset(echogram) can find (lines 315-319): the open may fail,
\* the ping_time variable may be missing, or its first element is a time,
\* <<days since the epoch, thousandths of a second of the day>>
\* (18189 days after 1970-01-01 is 2019-10-20).
EchogramContents ==
    { [opens |-> FALSE, ping_time |-> FALSE, first |-> <<0, 0>>],
      [opens |-> TRUE, ping_time |-> FALSE, first |-> <<0, 0>>] }
    \cup { [opens |-> TRUE, ping_time |-> TRUE, first |-> <<18189, 5915000 + k>>] : k \in 0..MaxPingTime }

\* what self._extract_sample returns (line 258): a particle, a particle whose
\* values could not all be encoded, or None
ExtractSampleResults == {"particle", "encoding_errors", "None"}

\* ------------------------------------------------------------------------
\* Time stamps: <<days, thousandths of a second of the day>>

ThousandthsPerDay == 86400000
\* days from the NTP epoch (1900-01-01) to the Unix epoch (1970-01-01)
NtpDeltaDays == 25567

\* mi.core.time_tools.time_to_ntp_date_time (line 319): Unix time to NTP time
time_to_ntp_date_time(t) == <<t[1] + NtpDeltaDays, t[2]>>

\* t + n thousandths of a second
ts_add(t, n) ==
    <<t[1] + (t[2] + n) \div ThousandthsPerDay, (t[2] + n) % ThousandthsPerDay>>

\* timestamp_offset with the offset given to the HOURLY record instead
timestamp_offset_hourly(type) == IF type = HOURLY THEN 1 ELSE 0

\* line 248, in thousandths of a second: 0.001 if echogram_type == FULL else 0
timestamp_offset(type) == IF type = FULL THEN 1 ELSE 0

\* ------------------------------------------------------------------------
\* State

VARIABLES
    echogram_filepath,      \* self._echogram_filepath
    dir_entries,            \* what os.listdir(echogram_dirname) returns
    pc,                     \* where parse_file is
    exception,              \* the exception parse_file raised
    echogram_type,          \* line 194/198
    m,                      \* the named groups of the range match
    hourly_file_regex,      \* lines 208/213/218
    start_day_datetime,
    stop_day_datetime,
    listed,                 \* os.listdir has been called
    hourly_files,           \* line 224
    opened,                 \* the paths netCDF4.Dataset was called on, in order
    open_handles,           \* the datasets opened and not closed
    src_filenames,          \* Provenance.src_filenames as read at line 270
    provenance,             \* self.provenance
    first_ping_time,        \* line 252
    particle,               \* line 258
    record_buffer           \* self._record_buffer

vars == <<echogram_filepath, dir_entries, pc, exception, echogram_type, m,
          hourly_file_regex, start_day_datetime, stop_day_datetime, listed,
          hourly_files, opened, open_handles, src_filenames, provenance,
          first_ping_time, particle, record_buffer>>

\* line 180
echogram_dirname == path_split(echogram_filepath)[1]
echogram_filename == path_split(echogram_filepath)[2]

NoException == [type |-> "none", kind |-> "none", args |-> <<>>]
EmptyProvenance == [k \in {} |-> <<>>]
NoTime == <<0, 0>>

Init ==
    /\ echogram_filepath \in EchogramPaths
    /\ dir_entries \in Listings
    /\ pc = "classify"
    /\ exception = NoException
    /\ echogram_type = None
    /\ m = NoMatch
    /\ hourly_file_regex = <<>>
    /\ start_day_datetime = NoDatetime
    /\ stop_day_datetime = NoDatetime
    /\ listed = FALSE
    /\ hourly_files = {}
    /\ opened = <<>>
    /\ open_handles = {}
    /\ src_filenames = <<>>
    /\ provenance = EmptyProvenance
    /\ first_ping_time = NoTime
    /\ particle = "None"
    /\ record_buffer = <<>>

\* raise type(...): parse_file is left with the exception
Raise(type, kind, args) ==
    /\ pc' = "raised"
    /\ exception' = [type |-> type, kind |-> kind, args |-> args]

\* ------------------------------------------------------------------------
\* parse_file, lines 178-266

\* lines 180-203: the kind of echogram, from its filename
Classify ==
    /\ pc = "classify"
    /\ LET mm == averaged_or_full_search(echogram_filename)
       IN  IF mm.ok
           THEN /\ m' = mm
                /\ echogram_type' = mm.type
                /\ pc' = "resolve"
                /\ UNCHANGED exception
           ELSE IF hourly_match(echogram_filename)
           THEN /\ m' = NoMatch
                /\ echogram_type' = HOURLY
                /\ pc' = "resolve"
                /\ UNCHANGED exception
           ELSE /\ Raise("SampleException", "format",
                         <<echogram_filename, averaged_or_full_filename_regex_str,
                           hourly_filename_regex_str>>)
                /\ UNCHANGED <<m, echogram_type>>
    /\ UNCHANGED <<echogram_filepath, dir_entries, hourly_file_regex,
                   start_day_datetime, stop_day_datetime, listed, hourly_files,
                   opened, open_handles, src_filenames, provenance,
                   first_ping_time, particle, record_buffer>>

\* lines 207-220: [ok, error, regex, start, stop]; error names the exception
\* of a failed concatenation (TypeError: str + None), strptime (ValueError)
\* or timedelta addition (OverflowError)
WindowError(e) == [ok |-> FALSE, error |-> e, regex |-> <<>>,
                   start |-> NoDatetime, stop |-> NoDatetime]

resolve_window(type, groups, filename) ==
    IF type = FULL
    THEN IF groups.date = None THEN WindowError("TypeError")
         ELSE LET start == strptime_date(groups.date)
                  stop == add_days(start.dt, 1)
              IN  IF ~start.ok THEN WindowError("ValueError")
                  ELSE IF ~stop.ok THEN WindowError("OverflowError")
                  ELSE [ok |-> TRUE, error |-> "none",
                        regex |-> <<"O","O","I","-","D">> \o groups.date \o <<"-","T","[","0","-","9","]","{","6","}","\\",".","n","c">>,
                        start |-> start.dt, stop |-> stop.dt]
    ELSE IF type = AVERAGED
    THEN LET start == strptime_date(groups.start_date)
             stop == strptime_date(groups.stop_date)
         IN  IF ~start.ok \/ ~stop.ok THEN WindowError("ValueError")
             ELSE [ok |-> TRUE, error |-> "none",
                   regex |-> <<"O","O","I","-","D","[","0","-","9","]","{","8","}","-","T","[","0","-","9","]","{","6","}","\\",".","n","c">>,
                   start |-> start.dt, stop |-> stop.dt]
    ELSE LET start == strptime_hourly(filename)
         IN  IF ~start.ok THEN WindowError("ValueError")
             ELSE [ok |-> TRUE, error |-> "none", regex |-> filename,
                   start |-> start.dt, stop |-> start.dt]

ResolveWindow ==
    /\ pc = "resolve"
    /\ LET w == resolve_window(echogram_type, m, echogram_filename)
       IN  IF w.ok
           THEN /\ hourly_file_regex' = w.regex
                /\ start_day_datetime' = w.start
                /\ stop_day_datetime' = w.stop
                /\ pc' = "listdir"
                /\ UNCHANGED exception
           ELSE /\ Raise(w.error, "window", <<echogram_filename>>)
                /\ UNCHANGED <<hourly_file_regex, start_day_datetime, stop_day_datetime>>
    /\ UNCHANGED <<echogram_filepath, dir_entries, echogram_type, m, listed,
                   hourly_files, opened, open_handles, src_filenames, provenance,
                   first_ping_time, particle, record_buffer>>

\* line 228: start <= t < stop
in_interval(start, t, stop) == dt_leq(start, t) /\ dt_less(t, stop)

\* lines 225-228, the condition of the list comprehension for entry f.
\* For a kind other than HOURLY an entry the regex lets through is parsed
\* with strptime, which raises ValueError when it fails: raises_on(f).
raises_on(regex, type, f) ==
    /\ re_match(regex, f)
    /\ type # HOURLY
    /\ ~strptime_hourly(f).ok

keeps(regex, type, start, stop, f) ==
    /\ re_match(regex, f)
    /\ \/ type = HOURLY
       \/ in_interval(start, strptime_hourly(f).dt, stop)

\* lines 224-235: the hourly files that correspond to the echogram
ListHourlyFiles ==
    /\ pc = "listdir"
    /\ listed' = TRUE
    /\ \E listable \in BOOLEAN :
        IF ~listable
        THEN /\ Raise("OSError", "listdir", <<echogram_dirname>>)
             /\ UNCHANGED hourly_files
        ELSE IF \E f \in dir_entries : raises_on(hourly_file_regex, echogram_type, f)
        THEN /\ Raise("ValueError", "strptime", <<>>)
             /\ UNCHANGED hourly_files
        ELSE LET files == {f \in dir_entries :
                             keeps(hourly_file_regex, echogram_type,
                                   start_day_datetime, stop_day_datetime, f)}
             IN  IF files = {}
                 THEN /\ Raise("SampleException", "correlation",
                               <<start_day_datetime, stop_day_datetime, echogram_type,
                                 echogram_filename, hourly_file_regex>>)
                      /\ UNCHANGED hourly_files
                 ELSE /\ hourly_files' = files
                      /\ pc' = "set_provenance"
                      /\ UNCHANGED exception
    /\ UNCHANGED <<echogram_filepath, dir_entries, echogram_type, m,
                   hourly_file_regex, start_day_datetime, stop_day_datetime,
                   opened, open_handles, src_filenames, provenance,
                   first_ping_time, particle, record_buffer>>

\* first_sorted taking the last of the sorted list
last_sorted(files) == CHOOSE f \in files : \A g \in files : g = f \/ StrLess(g, f)

\* line 242: sorted(hourly_files)[0]
first_sorted(files) == CHOOSE f \in files : \A g \in files : g = f \/ StrLess(f, g)

\* lines 270-273: the provenance after the attributes present were copied,
\* in order, up to the first missing one
provenance_read(c) ==
    [k \in {ProvenanceKeys[i] : i \in 1..c.attrs} |->
        CASE k = "data_file_name" -> c.src_filenames
          [] k = "conversion_software_name" -> <<"e","c","h","o","p","y","p","e">>
          [] k = "conversion_software_version" -> <<"0",".","1",".","4">>
          [] OTHER -> IF c.conversion_time = "valid" THEN <<"2","0","1","9","-","1","0","-","2","1","T","0","2",":","0","0",":","0","0","Z">> ELSE <<"u","n","k","n","o","w","n">>]

\* line 274 is reached, and the dataset closed, when every read succeeded
closes_hourly_file(c) == c.group /\ c.attrs = Len(ProvenanceKeys)

\* line 242 and lines 268-274: set_provenance_from_hourly_file
SetProvenanceFromHourlyFile ==
    /\ pc = "set_provenance"
    /\ LET hourly_file == path_join2(echogram_dirname, first_sorted(hourly_files))
       IN  \E c \in HourlyFileContents(first_sorted(hourly_files)) :
            IF ~c.opens
            THEN /\ Raise("IOError", "open", <<hourly_file>>)
                 /\ UNCHANGED <<opened, open_handles, src_filenames, provenance>>
            ELSE /\ opened' = Append(opened, hourly_file)
                 /\ IF ~c.group
                    THEN /\ Raise("KeyError", "Provenance", <<hourly_file>>)
                         /\ open_handles' = open_handles \cup {hourly_file}
                         /\ UNCHANGED <<src_filenames, provenance>>
                    ELSE /\ provenance' = provenance_read(c)
                         /\ src_filenames' = c.src_filenames
                         /\ IF closes_hourly_file(c)
                            THEN /\ pc' = "modify_provenance"
                                 /\ UNCHANGED <<exception, open_handles>>
                            ELSE /\ Raise("AttributeError", ProvenanceKeys[c.attrs + 1],
                                          <<hourly_file>>)
                                 /\ open_handles' = open_handles \cup {hourly_file}
    /\ UNCHANGED <<echogram_filepath, dir_entries, echogram_type, m,
                   hourly_file_regex, start_day_datetime, stop_day_datetime,
                   listed, hourly_files, first_ping_time, particle, record_buffer>>

\* line 291: the data file name of a FULL echogram
full_data_file_name(data_file_name) ==
    LET data_filename == path_split(data_file_name)[2]
        data_filename_ext == path_splitext(data_filename)[2]
    IN  SliceTo(data_file_name, rfind(data_file_name, "T")) \o <<"T","*">> \o data_filename_ext

\* line 306: whether the last day is appended to the range
appends_last_day(first_datetime, last_datetime) == dt_less(first_datetime, last_datetime)

\* lines 295-312: the data file name of an AVERAGED echogram, [ok, error,
\* name]; the subtraction of line 295 raises OverflowError when the stop day
\* is the first day datetime can hold
averaged_data_file_name(data_file_name, first_datetime, stop_datetime) ==
    LET daily_dirname == path_split(data_file_name)[1]
        data_filename == path_split(data_file_name)[2]
        data_filename_wo_ext == path_splitext(data_filename)[1]
        data_filename_ext == path_splitext(data_filename)[2]
        last_day == add_days(stop_datetime, -1)
        last_datetime == last_day.dt
        base_time_range_str ==
            SliceTo(data_filename_wo_ext, rfind(data_filename_wo_ext, "D"))
                \o <<"D","*","-","T","*">> \o data_filename_ext
        monthly_dirname == path_split(daily_dirname)[1]
        yearly_dirname == path_split(monthly_dirname)[1]
        first_path == path_join(yearly_dirname, strftime_m(first_datetime),
                                strftime_d(first_datetime), base_time_range_str)
    IN  IF ~last_day.ok
        THEN [ok |-> FALSE, error |-> "OverflowError", name |-> <<>>]
        ELSE [ok |-> TRUE, error |-> "none", name |->
                IF appends_last_day(first_datetime, last_datetime)
                THEN first_path \o <<" ",".",".","."," ">>
                         \o path_join(yearly_dirname, strftime_m(last_datetime),
                                      strftime_d(last_datetime), base_time_range_str)
                ELSE first_path]

\* line 243 and lines 276-312: modify_provenance_for_echogram_type
ModifyProvenanceForEchogramType ==
    /\ pc = "modify_provenance"
    /\ LET data_file_name == provenance["data_file_name"]
           averaged == averaged_data_file_name(data_file_name,
                                               start_day_datetime, stop_day_datetime)
       IN  IF echogram_type = HOURLY \/ data_file_name = <<>>
           THEN /\ pc' = "first_ping_time"
                /\ UNCHANGED <<provenance, exception>>
           ELSE IF echogram_type = FULL
           THEN /\ provenance' = [provenance EXCEPT
                                 !["data_file_name"] = full_data_file_name(data_file_name)]
                /\ pc' = "first_ping_time"
                /\ UNCHANGED exception
           ELSE IF ~averaged.ok
           THEN /\ Raise(averaged.error, "timedelta", <<>>)
                /\ UNCHANGED provenance
           ELSE /\ provenance' = [provenance EXCEPT
                                 !["data_file_name"] = averaged.name]
                /\ pc' = "first_ping_time"
                /\ UNCHANGED exception
    /\ UNCHANGED <<echogram_filepath, dir_entries, echogram_type, m,
                   hourly_file_regex, start_day_datetime, stop_day_datetime,
                   listed, hourly_files, opened, open_handles, src_filenames,
                   first_ping_time, particle, record_buffer>>

\* lines 316-319: the first ping time, converted for a flattened echogram
read_first_ping_time(type, c) ==
    IF type = HOURLY THEN c.first ELSE time_to_ntp_date_time(c.first)

\* line 252 and lines 314-321: get_first_ping_time_from_echogram
GetFirstPingTimeFromEchogram ==
    /\ pc = "first_ping_time"
    /\ \E c \in EchogramContents :
        IF ~c.opens
        THEN /\ Raise("IOError", "open", <<echogram_filepath>>)
             /\ UNCHANGED <<opened, open_handles, first_ping_time>>
        ELSE /\ opened' = Append(opened, echogram_filepath)
             /\ IF ~c.ping_time
                THEN /\ Raise("KeyError", "ping_time", <<echogram_filepath>>)
                     /\ open_handles' = open_handles \cup {echogram_filepath}
                     /\ UNCHANGED first_ping_time
                ELSE /\ first_ping_time' = read_first_ping_time(echogram_type, c)
                     /\ pc' = "build_particle"
                     /\ UNCHANGED <<exception, open_handles>>
    /\ UNCHANGED <<echogram_filepath, dir_entries, echogram_type, m,
                   hourly_file_regex, start_day_datetime, stop_day_datetime,
                   listed, hourly_files, src_filenames, provenance, particle,
                   record_buffer>>

\* lines 253-255: particle_data_dict
particle_data_dict(type, ping, filepath) ==
    [internal_timestamp |-> ts_add(ping, timestamp_offset(type)),
     zplsc_timestamp |-> ping,
     filepath |-> filepath]

\* appends_particle without the test for encoding errors
appends_particle_unchecked(p) == p # "None"

\* line 265: the particle is kept
appends_particle(p) == p # "None" /\ p # "encoding_errors"

\* lines 253-266: the particle is built, stamped with the conversion time and
\* appended.  The assignment of lines 262-263 evaluates its right-hand side
\* first: string_to_ntp_date_time raises ValueError on a time it cannot
\* parse, and only then does particle.contents of None raise AttributeError.
BuildParticle ==
    /\ pc = "build_particle"
    /\ \E p \in ExtractSampleResults :
        /\ particle' = p
        /\ IF provenance["conversion_time"] = <<"u","n","k","n","o","w","n">>
           THEN /\ Raise("ValueError", "conversion_time", <<>>)
                /\ UNCHANGED record_buffer
           ELSE IF p = "None"
           THEN /\ Raise("AttributeError", "contents", <<>>)
                /\ UNCHANGED record_buffer
           ELSE /\ pc' = "returned"
                /\ UNCHANGED exception
                /\ IF appends_particle(p)
                   THEN record_buffer' =
                            Append(record_buffer,
                                   [values |-> particle_data_dict(echogram_type,
                                                   first_ping_time, echogram_filepath),
                                    driver_timestamp |-> provenance["conversion_time"]])
                   ELSE UNCHANGED record_buffer
    /\ UNCHANGED <<echogram_filepath, dir_entries, echogram_type, m,
                   hourly_file_regex, start_day_datetime, stop_day_datetime,
                   listed, hourly_files, opened, open_handles, src_filenames,
                   provenance, first_ping_time>>

Next ==
    \/ Classify
    \/ ResolveWindow
    \/ ListHourlyFiles
    \/ SetProvenanceFromHourlyFile
    \/ ModifyProvenanceForEchogramType
    \/ GetFirstPingTimeFromEchogram
    \/ BuildParticle

Spec == Init /\ [][Next]_vars

\* ------------------------------------------------------------------------
\* The properties

\* s with every decimal digit replaced by "#"
Shape(s) == [k \in 1..Len(s) |-> IF s[k] \in Digits THEN "#" ELSE s[k]]

RangeShapes ==
    { <<"B","i","o","a","c","o","u","s","t","i","c","_","E","c","h","o","g","r","a","m","_","#","#","#","#","#","#","#","#","-","#","#","#","#","#","#","#","#","_","C","a","l","i","b","r","a","t","e","d","_","S","v","_">> \o ty \o us \o dt \o <<".","n","c">> :
        ty \in {AVERAGED, FULL}, us \in {<<>>, <<"_">>}, dt \in {<<>>, <<"#","#","#","#","#","#","#","#">>} }

\* the range grammar occurs somewhere in the name (the code searches for it)
InRangeGrammar(name) ==
    \E i \in 1..Len(name) : \E j \in i..Len(name) : Shape(SubSeq(name, i, j)) \in RangeShapes

HourlyShape == <<"O","O","I","-","D","#","#","#","#","#","#","#","#","-","T","#","#","#","#","#","#",".","n","c">>

\* the name starts with the hourly grammar (the code matches at the start)
StartsWithHourlyGrammar(name) ==
    Len(name) >= Len(HourlyShape) /\ Shape(SubSeq(name, 1, Len(HourlyShape))) = HourlyShape

\* the name is of the hourly grammar as a whole
IsHourlyName(name) == Shape(name) = HourlyShape

Kinds == {AVERAGED, FULL, HOURLY}

\* parse_file is past the classification and the window (lines 180-220)
Resolved == hourly_file_regex # <<>>

\* os.listdir returned the listing and every entry was tested (lines 224-228)
ListingDone == listed /\ exception.type # "OSError"

\* C1: a filename that matches neither grammar makes parse_file raise the
\* format error, which names the filename and both patterns, before the
\* directory is listed or any file opened; the provenance stays empty and
\* no record is appended.
C1_FormatErrorBeforeAnyIO ==
    (/\ pc # "classify"
     /\ ~InRangeGrammar(echogram_filename)
     /\ ~StartsWithHourlyGrammar(echogram_filename))
    => /\ pc = "raised"
       /\ exception.type = "SampleException"
       /\ exception.kind = "format"
       /\ exception.args = <<echogram_filename, averaged_or_full_filename_regex_str,
                             hourly_filename_regex_str>>
       /\ ~listed
       /\ opened = <<>>
       /\ open_handles = {}
       /\ DOMAIN provenance = {}
       /\ record_buffer = <<>>

C1_Witness ==
    /\ pc = "raised"
    /\ exception.kind = "format"
    /\ echogram_filename = <<"r","a","n","d","o","m","_","f","i","l","e",".","n","c">>
    /\ dir_entries # {}

\* C2 (as claimed): for every filename the classification ends either in a
\* descriptor with one kind and a defined range or in the format error; no
\* filename leads to another kind of error.
C2_DescriptorOrFormatError ==
    /\ (pc = "raised" /\ ~listed) =>
            (exception.type = "SampleException" /\ exception.kind = "format")
    /\ (pc \notin {"classify", "resolve", "raised"}) =>
            (/\ echogram_type \in Kinds
             /\ start_day_datetime # NoDatetime
             /\ stop_day_datetime # NoDatetime)

\* an entry has a time stamp inside the window
InWindow(f) ==
    /\ strptime_hourly(f).ok
    /\ dt_leq(start_day_datetime, strptime_hourly(f).dt)
    /\ dt_less(strptime_hourly(f).dt, stop_day_datetime)

\* an entry matches the resolved pattern and, for a kind other than HOURLY,
\* the half-open interval
Correlates(f) ==
    /\ re_match(hourly_file_regex, f)
    /\ (echogram_type = HOURLY \/ InWindow(f))

\* C3 (as claimed): when no directory entry matches the pattern and the
\* interval, parse_file raises the correlation error, which names the
\* interval, the kind, the filename and the pattern, and has opened no
\* file: the provenance is empty, no ping time was read, no record appended.
C3_NoMatchRaisesCorrelationError ==
    (/\ Resolved
     /\ ListingDone
     /\ \A f \in dir_entries : ~Correlates(f))
    => /\ pc = "raised"
       /\ exception.type = "SampleException"
       /\ exception.kind = "correlation"
       /\ exception.args = <<start_day_datetime, stop_day_datetime, echogram_type,
                             echogram_filename, hourly_file_regex>>
       /\ opened = <<>>
       /\ DOMAIN provenance = {}
       /\ first_ping_time = NoTime
       /\ record_buffer = <<>>

\* C4 (as claimed): an invocation that returns without raising has appended
\* exactly one record.
C4_ReturnedMeansOneRecord ==
    /\ Len(record_buffer) <= 1
    /\ pc = "raised" => record_buffer = <<>>
    /\ pc = "returned" => Len(record_buffer) = 1

\* C4 (amended): an invocation appends at most one record; one that raises
\* appends none; one that returns has appended exactly one record unless the
\* particle built has encoding errors, and then none.  The record appended
\* carries both time stamps, the echogram path and the driver time stamp.
C4_OneRecordUnlessEncodingErrors ==
    /\ Len(record_buffer) <= 1
    /\ pc # "returned" => record_buffer = <<>>
    /\ pc = "returned" => (Len(record_buffer) = 1 <=> particle # "encoding_errors")
    /\ \A i \in 1..Len(record_buffer) :
        /\ particle = "particle"
        /\ record_buffer[i].values.filepath = echogram_filepath
        /\ record_buffer[i].values.zplsc_timestamp # NoTime
        /\ record_buffer[i].values.internal_timestamp # NoTime
        /\ record_buffer[i].driver_timestamp = provenance["conversion_time"]

C4_Witness ==
    /\ pc = "returned"
    /\ Len(record_buffer) = 1
    /\ echogram_type = AVERAGED

\* the day D of a FULL echogram, from the digits of its name
FullDay == ToOrdinal(ToInt(SubSeq(m.date, 1, 4)), ToInt(SubSeq(m.date, 5, 6)),
                     ToInt(SubSeq(m.date, 7, 8)))

\* C5 (as claimed): for a FULL echogram of day D the window is [D, D + 1 day)
\* and the pattern accepts only the entries named OOI-D<D>-T<6 digits>.nc,
\* each with its time stamp inside the window.
C5_FullWindowAndPattern ==
    (echogram_type = FULL /\ Resolved)
    => /\ start_day_datetime = <<FullDay, 0>>
       /\ stop_day_datetime = <<FullDay + 1, 0>>
       /\ \A f \in dir_entries :
            re_match(hourly_file_regex, f)
            => /\ IsHourlyName(f)
               /\ SubSeq(f, 6, 13) = m.date
               /\ InWindow(f)

\* C6 (as claimed): for an HOURLY echogram the only entry selected, and the
\* only file opened for the provenance, is the one named like the echogram.
C6_HourlyMatchesItselfOnly ==
    (echogram_type = HOURLY)
    => /\ hourly_files \subseteq {echogram_filename}
       /\ Len(opened) >= 1 => opened[1] = echogram_filepath

\* the provenance has been rewritten (line 243 was passed)
Rewritten == pc \in {"first_ping_time", "build_particle", "returned"}

FourDigits(n) == TwoDigits(n \div 100) \o TwoDigits(n % 100)

\* <root>/<year>/<month>/<day>/<template> for the day of datetime dt, the
\* root and the template being those of the raw files of RawPathOf
DayPath(dt) ==
    LET ymd == FromOrdinal(dt[1])
    IN  <<"/","d","a","t","a","/","z","p","l","s","c","/">> \o FourDigits(ymd[1]) \o <<"/">> \o TwoDigits(ymd[2]) \o <<"/">>
            \o TwoDigits(ymd[3]) \o <<"/","O","O","I","-","D","*","-","T","*",".","r","a","w">>

\* C7 (as claimed): for an AVERAGED echogram with window [S, T) the rewritten
\* reference is the path of day S, followed, if and only if the last covered
\* day L = T - 1 day differs from S, by " ... " and the path of day L, the
\* year, month and day of each path being those of its own day.
C7_AveragedRangeOfBoundaryDays ==
    (echogram_type = AVERAGED /\ Rewritten /\ src_filenames # <<>>)
    => LET S == start_day_datetime
           L == <<stop_day_datetime[1] - 1, stop_day_datetime[2]>>
       IN  provenance["data_file_name"] =
               IF L # S THEN DayPath(S) \o <<" ",".",".","."," ">> \o DayPath(L) ELSE DayPath(S)

\* t plus one thousandth of a second
PlusOneThousandth(t) == IF t[2] + 1 < ThousandthsPerDay THEN <<t[1], t[2] + 1>> ELSE <<t[1] + 1, 0>>

\* C8: in every record produced the file time is the first ping time and the
\* internal time stamp is the first ping time plus 0.001 for a FULL echogram
\* and the first ping time itself for the other kinds, so that the FULL
\* record differs from the HOURLY record of the same first ping time in its
\* internal time stamp and not in its file time.
C8_TimestampOffsetOnlyForFull ==
    \A i \in 1..Len(record_buffer) :
        LET r == record_buffer[i].values
        IN  /\ first_ping_time # NoTime
            /\ r.zplsc_timestamp = first_ping_time
            /\ echogram_type = FULL =>
                    /\ r.internal_timestamp = PlusOneThousandth(first_ping_time)
                    /\ r.internal_timestamp # r.zplsc_timestamp
            /\ echogram_type # FULL => r.internal_timestamp = first_ping_time

C8_Witness ==
    /\ Len(record_buffer) = 1
    /\ echogram_type = FULL
    /\ first_ping_time = <<18189 + NtpDeltaDays, 5915001>>

\* an entry the pattern of the kind lets through whose time stamp lies in
\* the window
Candidate(f) ==
    /\ StartsWithHourlyGrammar(f)
    /\ echogram_type = FULL => SubSeq(f, 6, 13) = m.date
    /\ InWindow(f)

\* C9: for a kind other than HOURLY the one file opened for the provenance is
\* the earliest of the entries that match the pattern with a time stamp in
\* [start, stop): it is first in name order and in time order, and no entry
\* outside the window is opened.
C9_EarliestCandidateOpened ==
    (echogram_type \in {AVERAGED, FULL} /\ Len(opened) >= 1)
    => /\ \E f \in dir_entries :
            /\ opened[1] = echogram_dirname \o <<"/">> \o f
            /\ Candidate(f)
            /\ \A g \in dir_entries :
                (Candidate(g) /\ g # f)
                => /\ dt_less(strptime_hourly(f).dt, strptime_hourly(g).dt)
                   /\ StrLess(f, g)
       /\ \A i \in 2..Len(opened) : i = 2 /\ opened[i] = echogram_filepath

C9_Witness ==
    /\ echogram_type = AVERAGED
    /\ Len(opened) >= 1
    /\ Cardinality(hourly_files) >= 2

\* C10 (as claimed): when parse_file has returned or raised, every dataset
\* it opened is closed.
C10_HandlesClosedOnEveryPath ==
    pc \in {"returned", "raised"} => open_handles = {}

\* the reference is <dir>/<prefix>D<date>-T<hhmmss><ext>: the hour-of-day
\* token T<6 digits> follows D<8 digits>- at position i
HourTokenAt(ref, i) ==
    /\ i > 10 /\ i + 6 <= Len(ref)
    /\ Shape(SubSeq(ref, i - 10, i + 6)) = <<"D","#","#","#","#","#","#","#","#","-","T","#","#","#","#","#","#">>
    /\ \A k \in (i + 7)..Len(ref) : ref[k] # "/"

\* the extension of such a reference: what follows the hour-of-day token
ExtAfterHourToken(ref, i) == SubSeq(ref, i + 7, Len(ref))

\* C11 (as claimed): for a FULL echogram with a non-empty reference
\* <dir>/<prefix>D<date>-T<hhmmss><ext> the rewritten reference is
\* <dir>/<prefix>D<date>-T*<ext>: directory, prefix, date and extension are
\* kept and only the hour-of-day token is replaced.
C11_FullKeepsAllButHourToken ==
    (echogram_type = FULL /\ Rewritten /\ src_filenames # <<>>)
    => \A i \in 1..Len(src_filenames) :
          HourTokenAt(src_filenames, i)
          => provenance["data_file_name"] =
                 SubSeq(src_filenames, 1, i - 1) \o <<"T","*">>
                     \o ExtAfterHourToken(src_filenames, i)

====
